---- MODULE Spec2Model ----
(***************************************************************************)
(* A model of gql_generator.py: GQLGenerator walks a GraphQL schema and    *)
(* renders fragments, queries and mutations through string templates.      *)
(*                                                                         *)
(* Representation.  A Python string is a sequence of tokens (TLA+ strings  *)
(* that are never split further); a multi-line text is a sequence of       *)
(* lines, each line a sequence of tokens.  The tokens "_" and "Type" carry *)
(* the characters the code's regular expressions and startswith('_') look  *)
(* at; no other token of a schema name contains an underscore or the       *)
(* substring "Type".  A GraphQL type object is a record whose field cls is *)
(* its Python class; a record has the attribute a exactly when a is in its *)
(* domain, so reading a missing attribute is an AttributeError.            *)
(***************************************************************************)
EXTENDS Naturals, Sequences, FiniteSets, TLC

VARIABLES
    schema,                 \* self.schema: the schema handed to __init__
    project_schema,         \* the module-level `schema` imported from project.schema
    fragment_name_replace,  \* the class attribute of that name, or None
    files,                  \* codegen's three file arguments: TRUE when given
    fs,                     \* per sink, the chunks written to the file so far
    stdout,                 \* what print has written
    pc,                     \* position in codegen / save
    handler,                \* the generator save is iterating
    ret,                    \* where save returns to
    idx                     \* position of the running generator in its dict

vars == <<schema, project_schema, fragment_name_replace, files, fs, stdout,
          pc, handler, ret, idx>>

\* Python values that may be None: None itself, or a str holding tokens.
None == [cls |-> "NoneType"]
Str(s) == [cls |-> "str", s |-> s]

-----------------------------------------------------------------------------
(* Bounds of the model.                                                    *)

MaxFields == 2          \* fields of a root type
MaxTypes == 3           \* entries of a type map
MaxPayloadFields == 2   \* fields of a mutation payload type
MaxDepth == 2           \* wrapper levels (List / NonNull) around a named type

-----------------------------------------------------------------------------
(* Strings and regular expressions.                                        *)

StartsWith(s, p) ==
    Len(s) >= Len(p) /\ SubSeq(s, 1, Len(p)) = p

EndsWith(s, p) ==
    Len(s) >= Len(p) /\ SubSeq(s, Len(s) - Len(p) + 1, Len(s)) = p

\* One alternative of a pattern: a literal, or '.+<literal>$'.
Lit(l) == [re |-> "literal", lit |-> l]
AnySuffix(l) == [re |-> ".+literal$", lit |-> l]

fragment_exclude ==
    << Lit(<<"Query">>),
       AnySuffix(<<"Type", "Connection">>),
       AnySuffix(<<"Type", "Edge">>),
       AnySuffix(<<"Payload">>),
       Lit(<<"Mutation">>),
       Lit(<<"Django", "Debug", "SQL">>) >>
query_exclude == << Lit(<<"_", "debug">>) >>
mutation_exclude == << Lit(<<"_", "debug">>) >>

\* '|'.join(alternatives): the alternation, empty (falsy) for an empty list.
fragment_exclude_pattern == fragment_exclude
query_exclude_pattern == query_exclude
mutation_exclude_pattern == mutation_exclude

\* re.search in place of re.match: the alternative may match anywhere.
AltSearch(alt, name) ==
    \E k \in 1..Len(name) :
        LET rest == SubSeq(name, k, Len(name))
        IN IF alt.re = "literal"
           THEN StartsWith(rest, alt.lit)
           ELSE k > 1 /\ EndsWith(rest, alt.lit)

\* re.match of one alternative at position 0 of the name.
AltMatch(alt, name) ==
    IF alt.re = "literal"
    THEN StartsWith(name, alt.lit)
    ELSE Len(name) > Len(alt.lit) /\ EndsWith(name, alt.lit)

\* re.match(pattern, name) is not None
re_match(pattern, name) ==
    \E i \in 1..Len(pattern) : AltMatch(pattern[i], name)

\* `pattern and re.match(pattern, name)`
Excluded(pattern, name) ==
    pattern # <<>> /\ re_match(pattern, name)

\* ('Type.*', 'Field')
DefaultReplace == [cls |-> "tuple", pattern |-> <<"Type">>, repl |-> <<"Field">>]

\* re.sub('Type.*', 'Field', name): the first "Type" and all that follows it
\* is replaced; a name without "Type" is returned unchanged.
re_sub(replace, name) ==
    LET hits == {i \in 1..Len(name) : name[i] = replace.pattern[1]}
    IN IF hits = {} THEN name
       ELSE LET first == CHOOSE i \in hits : \A j \in hits : i <= j
            IN SubSeq(name, 1, first - 1) \o replace.repl

\* `re.sub(*self.fragment_name_replace, string=name)
\*      if self.fragment_name_replace else name`
fragment_name(replace, name) ==
    IF replace.cls # "NoneType" THEN re_sub(replace, name) ELSE name

-----------------------------------------------------------------------------
(* Type objects.                                                           *)

IsInstance(t, cls) ==
    \/ t.cls = cls
    \/ cls = "GraphQLObjectType" /\ t.cls = "GrapheneObjectType"

HasAttr(t, a) == a \in DOMAIN t

Scalar(n) == [cls |-> "GraphQLScalarType", name |-> n]
Enum(n) == [cls |-> "GraphQLEnumType", name |-> n]
Object(n, fs_) == [cls |-> "GrapheneObjectType", name |-> n, fields |-> fs_]
CoreObject(n, fs_) == [cls |-> "GraphQLObjectType", name |-> n, fields |-> fs_]
List(t) == [cls |-> "GraphQLList", of_type |-> t]
NonNull(t) == [cls |-> "GraphQLNonNull", of_type |-> t]

Field(n, t, a) == [name |-> n, type |-> t, args |-> a]
Argument(n, t, d) == [name |-> n, type |-> t, default_value |-> d]

-----------------------------------------------------------------------------
(* string.Template: a template is a sequence of lines, a line a sequence   *)
(* of literal parts and ${holes}.  A substituted value is a text (a        *)
(* sequence of lines), so a value holding newlines splits the line it is   *)
(* substituted into.                                                       *)

L(v) == [k |-> "lit", v |-> v]
H(v) == [k |-> "hole", v |-> v]

FRAGMENT_TEMPLATE ==
    << <<>>,
       << L("fragment "), H("fragment"), L(" on "), H("type"), L(" {") >>,
       << L("    "), H("fields") >>,
       << L("}") >>,
       <<>> >>

QUERY_TEMPLATE ==
    << <<>>,
       << L("query "), H("operation_name"), L("("), H("variables"), L(") {") >>,
       << L("    "), H("query_name"), L("("), H("arguments"), L(")") >>,
       << L("}") >>,
       <<>> >>

QUERY_TEMPLATE_SINGLE ==
    << <<>>,
       << L("query "), H("operation_name"), L("("), H("variables"), L(") {") >>,
       << L("    "), H("query_name"), L("("), H("arguments"), L(") {") >>,
       << L("        "), L("..."), H("fragment") >>,
       << L("    "), L("}") >>,
       << L("}") >>,
       <<>> >>

QUERY_TEMPLATE_PAGINATION ==
    << <<>>,
       << L("query "), H("operation_name"), L("(") >>,
       << L("    "), H("variables") >>,
       << L(") {") >>,
       << L("    "), H("query_name"), L("(") >>,
       << L("    "), H("arguments") >>,
       << L(") {") >>,
       << L("        "), L("__typename") >>,
       << L("        "), L("totalCount") >>,
       << L("        "), L("edgeCount") >>,
       << L("        "), L("pageInfo"), L(" {") >>,
       << L("            "), L("..."), L("PageInfoField") >>,
       << L("        "), L("}") >>,
       << L("        "), L("edges"), L(" {") >>,
       << L("            "), L("__typename") >>,
       << L("            "), L("cursor") >>,
       << L("            "), L("node"), L(" {") >>,
       << L("                "), L("..."), H("fragment") >>,
       << L("            "), L("}") >>,
       << L("        "), L("}") >>,
       << L("    "), L("}"), L("  ") >>,
       << L("}") >>,
       <<>> >>

MUTATION_TEMPLATE ==
    << <<>>,
       << L("mutation "), H("operation_name"), L("("), H("variables"), L(") {") >>,
       << L("    "), H("mutation_name"), L("("), H("arguments"), L(") {") >>,
       << L("        "), H("fields") >>,
       << L("    "), L("}") >>,
       << L("}") >>,
       <<>> >>

\* A one-line string as a text.
Line(s) == << s >>

\* '\n'.join(strings): one line per string; the empty string for no strings.
JoinNewline(strings) == IF strings = <<>> THEN << <<>> >> ELSE strings

RECURSIVE JoinComma(_)
\* ', '.join(strings): a single line.
JoinComma(strings) ==
    IF strings = <<>> THEN <<>>
    ELSE IF Len(strings) = 1 THEN strings[1]
    ELSE strings[1] \o <<", ">> \o JoinComma(Tail(strings))

RECURSIVE SubstLine(_, _, _)
\* The lines one template line becomes; acc holds the lines built so far,
\* the last of them still open.
SubstLine(parts, m, acc) ==
    IF parts = <<>> THEN acc
    ELSE LET p == Head(parts)
             n == Len(acc)
             open == acc[n]
             done == SubSeq(acc, 1, n - 1)
         IN IF p.k = "lit"
            THEN SubstLine(Tail(parts), m, done \o << open \o <<p.v>> >>)
            ELSE LET v == m[p.v]
                 IN SubstLine(Tail(parts), m,
                              done \o << open \o Head(v) >> \o Tail(v))

RECURSIVE substitute(_, _)
\* Template.substitute(**m): keys of m the template does not use are ignored.
substitute(template, m) ==
    IF template = <<>> THEN <<>>
    ELSE SubstLine(Head(template), m, << <<>> >>) \o substitute(Tail(template), m)

-----------------------------------------------------------------------------
(* Arguments.                                                              *)

RECURSIVE _scalar_type_to_gql(_)
_scalar_type_to_gql(scalar_type) ==
    IF IsInstance(scalar_type, "GraphQLNonNull")
    THEN _scalar_type_to_gql(scalar_type.of_type) \o <<"!">>
    ELSE IF IsInstance(scalar_type, "GraphQLList")
    THEN <<"[">> \o _scalar_type_to_gql(scalar_type.of_type) \o <<"]">>
    ELSE scalar_type.name

\* A default value is written as its Python repr; "None" is no default.
PyFalsy == {"None", "0", "False", "''"}
Truthy(value) == value \notin PyFalsy

\* str(value), as f'{value}' formats it.
PyFormat(value) ==
    IF value = "''" THEN <<>>
    ELSE IF value = "'asc'" THEN <<"asc">>
    ELSE <<value>>

\* One (name, scalar_type_gql) pair of _arguments_to_name_and_scalar_type.
ArgumentTypeGql(scalar) ==
    LET scalar_type_gql == _scalar_type_to_gql(scalar.type)
    IN IF Truthy(scalar.default_value)
       THEN scalar_type_gql \o <<" = ">> \o PyFormat(scalar.default_value)
       ELSE scalar_type_gql

_arguments_to_name_and_scalar_type(arguments) ==
    [i \in 1..Len(arguments) |->
        [name |-> arguments[i].name, type |-> ArgumentTypeGql(arguments[i])]]

\* variables.append(f'${arg_name}: {arg_type}')
Variables(arguments) ==
    LET pairs == _arguments_to_name_and_scalar_type(arguments)
    IN [i \in 1..Len(pairs) |-> <<"$">> \o pairs[i].name \o <<": ">> \o pairs[i].type]

\* arguments.append(f'{arg_name}: ${arg_name}')
Arguments(arguments) ==
    LET pairs == _arguments_to_name_and_scalar_type(arguments)
    IN [i \in 1..Len(pairs) |-> pairs[i].name \o <<": ">> \o <<"$">> \o pairs[i].name]

\* 'page' in field.args
HasPage(arguments) == \E i \in 1..Len(arguments) : arguments[i].name = <<"page">>

-----------------------------------------------------------------------------
(* One iteration of each generator: what it does with one dict item.       *)

Continue == [kind |-> "continue"]
Raise(e) == [kind |-> "raise", error |-> e]
Yield(text) == [kind |-> "yield", text |-> text]

\* The body of get_fragments' loop.
get_fragments_item(replace, name, instance) ==
    IF Excluded(fragment_exclude_pattern, name) THEN Continue
    ELSE IF ~IsInstance(instance, "GrapheneObjectType") THEN Continue
    ELSE Yield(substitute(FRAGMENT_TEMPLATE,
                 [fragment |-> Line(fragment_name(replace, name)),
                  type |-> Line(name),
                  fields |-> JoinNewline([i \in 1..Len(instance.fields) |->
                                             instance.fields[i].name])]))

\* The non-null test made on the declared type, no wrapper removed.
QueryFieldTypeDeclared(field) == field.type

\* `field_type = field.type` for a graphene object type, else one wrapper
\* level is removed: `field_type = field.type.of_type`.
QueryFieldType(field) ==
    IF IsInstance(field.type, "GrapheneObjectType") THEN field.type ELSE field.type.of_type

\* The fragment handed to the template: `fragment = None` when the unwrapped
\* type is a NonNull wrapper, else the fragment name of field_type.name.
QueryFragment(replace, field_type) ==
    IF IsInstance(field_type, "GraphQLNonNull") THEN None
    ELSE Str(fragment_name(replace, field_type.name))

\* The template get_queries picks.
QueryTemplate(field_type, arguments) ==
    IF IsInstance(field_type, "GraphQLNonNull") THEN QUERY_TEMPLATE
    ELSE IF HasPage(arguments) THEN QUERY_TEMPLATE_PAGINATION
    ELSE QUERY_TEMPLATE_SINGLE

\* The body of get_queries' loop.
get_queries_item(replace, name, field) ==
    IF Excluded(query_exclude_pattern, name) THEN Continue
    ELSE IF IsInstance(field.type, "GraphQLScalarType") THEN Continue
    ELSE IF ~IsInstance(field.type, "GrapheneObjectType") /\ ~HasAttr(field.type, "of_type")
    THEN Raise("AttributeError")    \* field.type.of_type
    ELSE LET field_type == QueryFieldType(field)
         IN IF ~IsInstance(field_type, "GraphQLNonNull") /\ ~HasAttr(field_type, "name")
            THEN Raise("AttributeError")    \* field_type.name
            ELSE LET fragment == QueryFragment(replace, field_type)
                 IN Yield(substitute(QueryTemplate(field_type, field.args),
                            [operation_name |-> Line(name),
                             variables |-> JoinNewline(Variables(field.args)),
                             query_name |-> Line(name),
                             arguments |-> JoinNewline(Arguments(field.args)),
                             \* QUERY_TEMPLATE has no ${fragment}: None is never rendered
                             fragment |-> IF fragment.cls = "str"
                                          THEN Line(fragment.s) ELSE Line(<<"None">>)]))

RECURSIVE MutationFieldFragmentByTransform(_, _)
\* ErrorType named like every other object type, by the naming transform.
MutationFieldFragmentByTransform(replace, field_type) ==
    IF IsInstance(field_type, "GraphQLObjectType")
    THEN Str(fragment_name(replace, field_type.name))
    ELSE IF IsInstance(field_type, "GraphQLList")
    THEN MutationFieldFragmentByTransform(replace, field_type.of_type)
    ELSE None

RECURSIVE _mutation_field_fragment(_, _)
_mutation_field_fragment(replace, field_type) ==
    IF IsInstance(field_type, "GraphQLObjectType")
    THEN IF field_type.name = <<"Error", "Type">>
         THEN Str(<<"Error", "Type", "Field">>)
         ELSE Str(fragment_name(replace, field_type.name))
    ELSE IF IsInstance(field_type, "GraphQLList")
    THEN _mutation_field_fragment(replace, field_type.of_type)  \* a list has of_type
    ELSE IF IsInstance(field_type, "GraphQLNonNull")
    THEN None
    ELSE None

\* `if fragment:`
FragmentTruthy(fragment) == fragment.cls = "str" /\ fragment.s # <<>>

\* The tuples _mutation_fields yields, one per payload field.
_mutation_fields(replace, fields) ==
    [i \in 1..Len(fields) |->
        LET fragment == _mutation_field_fragment(replace, fields[i].type)
        IN IF FragmentTruthy(fragment)
           THEN << fields[i].name \o <<" {">>, <<"...">> \o fragment.s, <<"}">> >>
           ELSE << fields[i].name >>]

RECURSIVE Flatten(_)
Flatten(tuples) ==
    IF tuples = <<>> THEN <<>> ELSE Head(tuples) \o Flatten(Tail(tuples))

\* mutation_field.startswith('_')
StartsWithUnderscore(s) == StartsWith(s, <<"_">>)

\* The underscore filter left out.
Unfiltered(strings) == strings

RECURSIVE NotUnderscored(_)
\* `... if not mutation_field.startswith('_')`: the strings kept, in order.
NotUnderscored(strings) ==
    IF strings = <<>> THEN <<>>
    ELSE (IF ~StartsWithUnderscore(Head(strings)) THEN <<Head(strings)>> ELSE <<>>)
         \o NotUnderscored(Tail(strings))

\* The generator expression of get_mutations: every string of every tuple
\* of _mutation_fields that does not start with an underscore.
MutationFieldStrings(replace, fields) ==
    NotUnderscored(Flatten(_mutation_fields(replace, fields)))

\* The body of get_mutations' loop.
get_mutations_item(replace, name, field) ==
    IF Excluded(mutation_exclude_pattern, name) THEN Continue
    ELSE IF ~IsInstance(field.type, "GrapheneObjectType") THEN Continue
    ELSE Yield(substitute(MUTATION_TEMPLATE,
                 [operation_name |-> Line(name),
                  variables |-> Line(JoinComma(Variables(field.args))),
                  mutation_name |-> Line(name),
                  arguments |-> Line(JoinComma(Arguments(field.args))),
                  fields |-> JoinNewline(MutationFieldStrings(replace, field.type.fields))]))

-----------------------------------------------------------------------------
(* The schemas the generator is run on.                                    *)

Int == Scalar(<<"Int">>)
String == Scalar(<<"String">>)
Boolean == Scalar(<<"Boolean">>)
Role == Enum(<<"Role">>)

UserType ==
    Object(<<"User", "Type">>,
           << Field(<<"id">>, NonNull(Int), <<>>), Field(<<"name">>, String, <<>>) >>)
UserTypeEdge ==
    Object(<<"User", "Type", "Edge">>,
           << Field(<<"node">>, UserType, <<>>), Field(<<"cursor">>, NonNull(String), <<>>) >>)
UserTypeConnection ==
    Object(<<"User", "Type", "Connection">>,
           << Field(<<"edges">>, NonNull(List(UserTypeEdge)), <<>>),
              Field(<<"totalCount">>, Int, <<>>) >>)
ErrorType ==
    Object(<<"Error", "Type">>,
           << Field(<<"field">>, NonNull(String), <<>>),
              Field(<<"messages">>, List(NonNull(String)), <<>>) >>)
\* An introspection type: a GraphQLObjectType that graphene did not build.
IntrospectionType ==
    CoreObject(<<"__", "Type">>, << Field(<<"kind">>, NonNull(Role), <<>>) >>)

RECURSIVE Wrapped(_, _)
\* The types made of at most depth List / NonNull wrappers around a base;
\* graphql refuses NonNull(NonNull(t)).
Wrapped(depth, bases) ==
    IF depth = 0 THEN bases
    ELSE LET inner == Wrapped(depth - 1, bases)
         IN inner \cup {List(t) : t \in inner}
                  \cup {NonNull(t) : t \in {u \in inner : u.cls # "GraphQLNonNull"}}

\* Sequences of 1..n members of S whose names are pairwise distinct: the
\* items of a dict keyed by name.
RECURSIVE DictItems(_, _)
DictItems(S, n) ==
    IF n = 0 THEN {<<>>}
    ELSE LET shorter == DictItems(S, n - 1)
         IN shorter \cup
            {Append(d, x) : <<d, x>> \in
                {<<d, x>> \in shorter \X S :
                    \A i \in 1..Len(d) : d[i].name # x.name}}

NonEmpty(D) == D \ {<<>>}

page == Argument(<<"page">>, Int, "None")
first == Argument(<<"first">>, Int, "10")

QueryTypes ==
    Wrapped(MaxDepth, {String, UserType})
        \cup {UserTypeConnection, NonNull(UserTypeConnection), Role}

QueryFieldChoices ==
    {Field(<<"users">>, t, a) :
        t \in QueryTypes, a \in {<<>>, <<page>>, <<first>>, <<first, page>>}}
    \cup {Field(<<"_", "debug">>, t, <<>>) : t \in {UserType, String, List(NonNull(String))}}
    \cup {Field(<<"viewer">>, t, <<>>) :
            t \in {UserType, String, List(NonNull(String)), NonNull(List(UserType))}}

TypeMapChoices ==
    { [name |-> t.name, instance |-> t] :
        t \in {UserType, ErrorType, UserTypeConnection, UserTypeEdge, String, Role,
               IntrospectionType,
               Object(<<"Query">>, <<Field(<<"viewer">>, UserType, <<>>)>>),
               Object(<<"Query", "Log", "Type">>, <<Field(<<"sql">>, String, <<>>)>>),
               Object(<<"Payload">>, <<Field(<<"ok">>, Boolean, <<>>)>>),
               Object(<<"Create", "User", "Payload">>, <<Field(<<"user">>, UserType, <<>>)>>),
               Object(<<"User", "Mutation", "Log">>, <<Field(<<"at">>, String, <<>>)>>)} }

PayloadFieldChoices ==
    {Field(<<"result">>, t, <<>>) :
        t \in Wrapped(MaxDepth, {UserType, ErrorType})
                \cup {String, List(String), Role, IntrospectionType}}
    \cup {Field(<<"errors">>, t, <<>>) :
            t \in {ErrorType, List(ErrorType), List(NonNull(ErrorType))}}
    \cup {Field(<<"_", "meta">>, t, <<>>) :
            t \in {String, UserType, List(UserType), NonNull(UserType)}}

Payload(fields) == Object(<<"Create", "User", "Payload">>, fields)

Payloads == {Payload(f) : f \in NonEmpty(DictItems(PayloadFieldChoices, MaxPayloadFields))}

UserPayload ==
    Payload(<< Field(<<"user">>, UserType, <<>>), Field(<<"errors">>, List(ErrorType), <<>>) >>)

MutationArgs ==
    {<<Argument(<<"limit">>, Int, d)>> : d \in {"None", "10", "0"}}
    \cup {<<Argument(<<"flag">>, Boolean, d)>> : d \in {"False", "True"}}
    \cup {<<Argument(<<"order">>, String, d)>> : d \in {"''", "'asc'"}}
    \cup { <<Argument(<<"ids">>, NonNull(List(NonNull(Int))), "None")>>,
           <<Argument(<<"name">>, NonNull(String), "None"), Argument(<<"limit">>, Int, "10")>> }

MutationFieldChoices ==
    {Field(<<"createUser">>, t, <<>>) : t \in Payloads}
    \cup {Field(<<"createUser">>, UserPayload, a) : a \in MutationArgs}
    \cup {Field(<<"createUser">>, t, <<>>) :
            t \in {String, NonNull(UserPayload), List(UserPayload),
                   CoreObject(<<"Create", "User", "Payload">>, UserPayload.fields)}}
    \cup {Field(<<"_", "debug">>, UserPayload, <<>>)}
    \cup {Field(<<"deleteUser">>, t, <<>>) : t \in {UserPayload, Boolean}}

TypeMapOf(types) == [i \in 1..Len(types) |-> [name |-> types[i].name, instance |-> types[i]]]

\* The project's own schema, and two others a caller may pass to codegen.
ProjectSchema ==
    [type_map |-> TypeMapOf(<<UserType, UserTypeConnection, ErrorType, String>>),
     query |-> << Field(<<"users">>, UserTypeConnection, <<page, first>>),
                  Field(<<"user">>, UserType, <<Argument(<<"id">>, NonNull(Int), "None")>>),
                  Field(<<"_", "debug">>, UserType, <<>>) >>,
     mutation |-> << Field(<<"createUser">>, UserPayload,
                           <<Argument(<<"name">>, NonNull(String), "None")>>) >>]

ListSchema ==
    [type_map |-> TypeMapOf(<<Role, UserType, IntrospectionType>>),
     query |-> << Field(<<"names">>, List(NonNull(String)), <<>>),
                  Field(<<"users">>, NonNull(List(UserType)), <<>>),
                  Field(<<"user">>, NonNull(UserType), <<>>) >>,
     mutation |-> << Field(<<"deleteUser">>,
                           Payload(<< Field(<<"ok">>, Boolean, <<>>),
                                      Field(<<"_", "meta">>, UserType, <<>>) >>),
                           <<Argument(<<"id">>, NonNull(Int), "None")>>),
                     Field(<<"ping">>, String, <<>>) >>]

PlainSchema ==
    [type_map |-> TypeMapOf(<<ErrorType, UserTypeEdge>>),
     query |-> << Field(<<"version">>, String, <<>>),
                  Field(<<"user">>, UserType, <<>>) >>,
     mutation |-> << Field(<<"_", "debug">>, UserPayload, <<>>),
                     Field(<<"createUser">>, UserPayload,
                           <<Argument(<<"limit">>, Int, "0")>>) >>]

SampleSchemas == {ProjectSchema, ListSchema, PlainSchema}

-----------------------------------------------------------------------------
(* State.                                                                  *)

Sinks == {"fragments", "mutations", "queries"}
SinkOf(h) ==
    CASE h = "get_fragments" -> "fragments"
      [] h = "get_mutations" -> "mutations"
      [] h = "get_queries" -> "queries"

\* What a sink holds before the run: one chunk left by an earlier run.
PriorContents == << << <<"stale">> >> >>

Configurations == {DefaultReplace, None}

InitCommon ==
    /\ fragment_name_replace \in Configurations
    /\ fs = [k \in Sinks |-> PriorContents]
    /\ stdout = <<>>
    /\ idx = 0

\* GQLGenerator.codegen(schema, fragments_file, mutations_file, queries_file)
\* right after `instance = cls(schema)`.
Init ==
    /\ InitCommon
    /\ schema \in SampleSchemas
    /\ project_schema \in SampleSchemas
    /\ files \in [Sinks -> BOOLEAN]
    /\ pc = "codegen_fragments"
    /\ handler = "none"
    /\ ret = "none"

\* GQLGenerator(schema).save(file, instance.get_fragments), the schema being
\* the project's own.
InitFragments ==
    /\ InitCommon
    /\ \E tm \in NonEmpty(DictItems(TypeMapChoices, MaxTypes)) :
          schema = [ProjectSchema EXCEPT !.type_map = tm]
    /\ project_schema = schema
    /\ files = [k \in Sinks |-> k = "fragments"]
    /\ pc = "save"
    /\ handler = "get_fragments"
    /\ ret = "return"

InitQueries ==
    /\ InitCommon
    /\ \E q \in NonEmpty(DictItems(QueryFieldChoices, MaxFields)) :
          schema = [ProjectSchema EXCEPT !.query = q]
    /\ project_schema = schema
    /\ files = [k \in Sinks |-> k = "queries"]
    /\ pc = "save"
    /\ handler = "get_queries"
    /\ ret = "return"

InitMutations ==
    /\ InitCommon
    /\ \E m \in NonEmpty(DictItems(MutationFieldChoices, MaxFields)) :
          schema = [ProjectSchema EXCEPT !.mutation = m]
    /\ project_schema = schema
    /\ files = [k \in Sinks |-> k = "mutations"]
    /\ pc = "save"
    /\ handler = "get_mutations"
    /\ ret = "return"

-----------------------------------------------------------------------------
(* codegen and save.                                                       *)

\* `if <kind>_file: instance.save(<kind>_file, instance.<h>)`, then on to next.
CodegenIf(at, h, next) ==
    /\ pc = at
    /\ IF files[SinkOf(h)]
       THEN pc' = "save" /\ handler' = h /\ ret' = next
       ELSE pc' = next /\ UNCHANGED <<handler, ret>>
    /\ UNCHANGED <<schema, project_schema, fragment_name_replace, files, fs, stdout, idx>>

codegen_fragments == CodegenIf("codegen_fragments", "get_fragments", "codegen_mutations")
codegen_mutations == CodegenIf("codegen_mutations", "get_mutations", "codegen_queries")
codegen_queries == CodegenIf("codegen_queries", "get_queries", "codegen_ok")

\* print('ok')
codegen_ok ==
    /\ pc = "codegen_ok"
    /\ stdout' = Append(stdout, <<"ok">>)
    /\ pc' = "done"
    /\ UNCHANGED <<schema, project_schema, fragment_name_replace, files, fs, handler, ret, idx>>

\* open(file, 'w'): the file is truncated; the handler is called.
save_open ==
    /\ pc = "save"
    /\ fs' = [fs EXCEPT ![SinkOf(handler)] = <<>>]
    /\ idx' = 1
    /\ pc' = "iterate"
    /\ UNCHANGED <<schema, project_schema, fragment_name_replace, files, stdout, handler, ret>>

\* What the running generator does with one item: nothing, f.write of the
\* text it yields, or an exception that leaves save and codegen.
Step(outcome) ==
    /\ IF outcome.kind = "yield"
       THEN /\ fs' = [fs EXCEPT ![SinkOf(handler)] = Append(@, outcome.text)]
            /\ idx' = idx + 1 /\ pc' = pc
       ELSE IF outcome.kind = "continue"
       THEN /\ idx' = idx + 1 /\ UNCHANGED <<fs, pc>>
       ELSE /\ pc' = "raised" /\ UNCHANGED <<fs, idx>>
    /\ UNCHANGED <<schema, project_schema, fragment_name_replace, files, stdout, handler, ret>>

\* get_fragments iterates self.schema.get_type_map().
FragmentItems == schema.type_map
\* get_queries iterates self.schema.get_query_type().fields.
QueryItems == schema.query
\* get_mutations iterates schema.get_mutation_type().fields, `schema` being
\* the module's import, not self.schema.
MutationItems == project_schema.mutation

Items(h) ==
    CASE h = "get_fragments" -> FragmentItems
      [] h = "get_mutations" -> MutationItems
      [] h = "get_queries" -> QueryItems

get_fragments ==
    /\ pc = "iterate" /\ handler = "get_fragments" /\ idx <= Len(FragmentItems)
    /\ Step(get_fragments_item(fragment_name_replace,
                               FragmentItems[idx].name, FragmentItems[idx].instance))

get_queries ==
    /\ pc = "iterate" /\ handler = "get_queries" /\ idx <= Len(QueryItems)
    /\ Step(get_queries_item(fragment_name_replace, QueryItems[idx].name, QueryItems[idx]))

get_mutations ==
    /\ pc = "iterate" /\ handler = "get_mutations" /\ idx <= Len(MutationItems)
    /\ Step(get_mutations_item(fragment_name_replace,
                               MutationItems[idx].name, MutationItems[idx]))

\* The generator is exhausted: the file is closed and save prints its path.
save_close ==
    /\ pc = "iterate" /\ idx > Len(Items(handler))
    /\ stdout' = Append(stdout, <<"[save]", SinkOf(handler)>>)
    /\ pc' = ret
    /\ UNCHANGED <<schema, project_schema, fragment_name_replace, files, fs, handler, ret, idx>>

Next ==
    \/ codegen_fragments \/ codegen_mutations \/ codegen_queries \/ codegen_ok
    \/ save_open \/ get_fragments \/ get_mutations \/ get_queries \/ save_close

Spec == Init /\ [][Next]_vars

NextFragments == save_open \/ get_fragments \/ save_close
SpecFragments == InitFragments /\ [][NextFragments]_vars

NextQueries == save_open \/ get_queries \/ save_close
SpecQueries == InitQueries /\ [][NextQueries]_vars

NextMutations == save_open \/ get_mutations \/ save_close
SpecMutations == InitMutations /\ [][NextMutations]_vars

-----------------------------------------------------------------------------
(* Reading the output.                                                     *)

\* save has written and closed sink k.
Closed(k) == \E i \in 1..Len(stdout) : stdout[i] = <<"[save]", k>>

\* Generator h has gone past item i of its dict (yielded for it or skipped it).
Processed(h, i) == handler = h /\ pc \in {"iterate", "return", "raised"} /\ idx > i

\* The chunks of sink k that open `<keyword> <name>(`.
BlocksFor(k, keyword, name) ==
    {i \in 1..Len(fs[k]) :
        Len(fs[k][i]) >= 2 /\ StartsWith(fs[k][i][2], <<keyword>> \o name \o <<"(">>)}

\* The lines of a text that hold a fragment spread.
SpreadLines(text) == {j \in 1..Len(text) : \E n \in 1..Len(text[j]) : text[j][n] = "..."}

\* The lines of a text that open a selection: they end with a brace.
OpenerLines(text) ==
    {j \in 1..Len(text) : text[j] # <<>> /\ text[j][Len(text[j])] \in {" {", ") {"}}

\* A line without its leading indentation.
Unindent(line) ==
    IF line # <<>> /\ line[1] \in {"    ", "        ", "            ", "                "}
    THEN Tail(line) ELSE line

HasLine(text, line) == \E j \in 1..Len(text) : Unindent(text[j]) = line

\* The bare query form: the field call, closed by its parenthesis, and
\* nothing selected under it.  (Several arguments are joined by newlines, so
\* the call may span lines.)
BareForm(text, name) ==
    /\ SpreadLines(text) = {}
    /\ Cardinality(OpenerLines(text)) = 1
    /\ \E j \in 1..Len(text) :
          /\ StartsWith(Unindent(text[j]), name \o <<"(">>)
          /\ \E n \in j..Len(text) : text[n] # <<>> /\ text[n][Len(text[n])] = ")"

PaginationFields == {<<"totalCount">>, <<"edgeCount">>, <<"pageInfo", " {">>, <<"edges", " {">>}

\* The line after the line `opener` spreads exactly `fragment`.
SpreadsUnder(text, opener, fragment) ==
    \E j \in 1..(Len(text) - 1) :
        /\ Unindent(text[j]) = opener
        /\ Unindent(text[j + 1]) = <<"...">> \o fragment

RECURSIVE Depth(_)
Depth(t) == IF HasAttr(t, "of_type") THEN 1 + Depth(t.of_type) ELSE 0

RECURSIVE NamedType(_)
\* The named type under every wrapper.
NamedType(t) == IF HasAttr(t, "of_type") THEN NamedType(t.of_type) ELSE t

FieldNamed(t, n) == CHOOSE i \in 1..Len(t.fields) : t.fields[i].name = n
HasField(t, n) == HasAttr(t, "fields") /\ \E i \in 1..Len(t.fields) : t.fields[i].name = n

\* A connection type: it has edges whose elements have a node.
IsConnection(t) ==
    /\ HasField(t, <<"edges">>)
    /\ HasField(NamedType(t.fields[FieldNamed(t, <<"edges">>)].type), <<"node">>)

\* The node type of a connection type.
NodeType(t) ==
    LET edge == NamedType(t.fields[FieldNamed(t, <<"edges">>)].type)
    IN NamedType(edge.fields[FieldNamed(edge, <<"node">>)].type)

-----------------------------------------------------------------------------
(* Claims about get_queries (SpecQueries).                                 *)

QueryNotExcluded(f) == ~re_match(query_exclude_pattern, f.name)

\* The result-type shapes C1 speaks of: a scalar or an object type under at
\* most two wrappers.
InQueryShapes(t) ==
    /\ Depth(t) <= 2
    /\ NamedType(t).cls \in {"GraphQLScalarType", "GrapheneObjectType"}

QueriesFinished == handler = "get_queries" /\ pc \in {"return", "raised"}

\* C1: once get_queries has run over root query fields whose result types
\* are scalars, objects or wrappers of these up to two levels deep, it has
\* not raised, and each field has exactly one query block if its name is not
\* excluded and its type is not a plain scalar, and none otherwise.
C1_EmittedIffNotExcludedNotScalar ==
    (QueriesFinished /\ \A i \in 1..Len(schema.query) : InQueryShapes(schema.query[i].type))
    => /\ pc # "raised"
       /\ \A i \in 1..Len(schema.query) :
            LET f == schema.query[i]
            IN Cardinality(BlocksFor("queries", "query ", f.name))
               = IF QueryNotExcluded(f) /\ f.type.cls # "GraphQLScalarType" THEN 1 ELSE 0

IsNonNullObject(t) ==
    t.cls = "GraphQLNonNull" /\ t.of_type.cls = "GrapheneObjectType"

IsListOfNonNull(t) ==
    t.cls = "GraphQLList" /\ t.of_type.cls = "GraphQLNonNull"

\* C2 as stated: every non-excluded root query field whose result type is
\* NonNull(Object) gets the bare query form.
C2_NonNullObjectIsBare ==
    \A i \in 1..Len(schema.query) :
        LET f == schema.query[i]
        IN (Processed("get_queries", i) /\ QueryNotExcluded(f) /\ IsNonNullObject(f.type))
           => \E b \in BlocksFor("queries", "query ", f.name) :
                 BareForm(fs["queries"][b], f.name)

\* The fragment form of a query on an object type: the single template or
\* the connection template, by the `page` argument.
FragmentForm(text, f, object) ==
    LET fragment == fragment_name(fragment_name_replace, object.name)
    IN IF HasPage(f.args)
       THEN /\ \A l \in PaginationFields : HasLine(text, l)
            /\ SpreadsUnder(text, <<"node", " {">>, fragment)
       ELSE /\ \A l \in PaginationFields : ~HasLine(text, l)
            /\ Cardinality(SpreadLines(text)) = 1
            /\ \E j \in SpreadLines(text) : Unindent(text[j]) = <<"...">> \o fragment

\* C2, amended: the bare query form is what a non-excluded field gets whose
\* result type is a list of non-null elements, List(NonNull(T)): one wrapper
\* level is removed before the non-null test.  A NonNull(Object) result is
\* unwrapped to the object and gets the fragment form of that object.
\* Neither shape makes get_queries raise.
C2_ListOfNonNullIsBare ==
    \A i \in 1..Len(schema.query) :
        LET f == schema.query[i]
            blocks == BlocksFor("queries", "query ", f.name)
        IN /\ (handler = "get_queries" /\ pc = "raised" /\ idx = i)
              => ~(IsListOfNonNull(f.type) \/ IsNonNullObject(f.type))
           /\ (Processed("get_queries", i) /\ QueryNotExcluded(f))
              =>
              /\ IsListOfNonNull(f.type)
                 => /\ Cardinality(blocks) = 1
                    /\ \A b \in blocks : BareForm(fs["queries"][b], f.name)
              /\ IsNonNullObject(f.type)
                 => /\ Cardinality(blocks) = 1
                    /\ \A b \in blocks : FragmentForm(fs["queries"][b], f, f.type.of_type)

\* A list of non-null elements has been rendered, and so has a non-null object.
C2_Witness ==
    /\ \E i \in 1..Len(schema.query) :
          /\ Processed("get_queries", i) /\ QueryNotExcluded(schema.query[i])
          /\ IsListOfNonNull(schema.query[i].type)
          /\ BlocksFor("queries", "query ", schema.query[i].name) # {}
    /\ \E i \in 1..Len(schema.query) :
          /\ Processed("get_queries", i) /\ QueryNotExcluded(schema.query[i])
          /\ IsNonNullObject(schema.query[i].type)
          /\ BlocksFor("queries", "query ", schema.query[i].name) # {}

\* C3: every non-excluded root query field whose result is a nullable object
\* type gets one block, shaped by the `page` argument alone: with it the
\* connection shape whose node selection spreads the fragment of the node
\* type; without it exactly one spread, of the fragment of the result type,
\* and no pagination fields.
C3_NullableObjectByPage ==
    \A i \in 1..Len(schema.query) :
        LET f == schema.query[i]
            blocks == BlocksFor("queries", "query ", f.name)
        IN (Processed("get_queries", i) /\ QueryNotExcluded(f)
                /\ f.type.cls = "GrapheneObjectType")
           => /\ Cardinality(blocks) = 1
              /\ \A b \in blocks :
                    FragmentForm(fs["queries"][b], f,
                                 IF HasPage(f.args) /\ IsConnection(f.type)
                                 THEN NodeType(f.type) ELSE f.type)

-----------------------------------------------------------------------------
(* Claims about get_fragments (SpecFragments).                             *)

\* The fragment exclusion pattern as the claim reads it: Query, Mutation and
\* DjangoDebugSQL at the start of the name; TypeConnection, TypeEdge and
\* Payload at its end, after at least one character.
FragmentExcludedName(name) ==
    \/ \E lit \in {<<"Query">>, <<"Mutation">>, <<"Django", "Debug", "SQL">>} :
          StartsWith(name, lit)
    \/ \E lit \in {<<"Type", "Connection">>, <<"Type", "Edge">>, <<"Payload">>} :
          Len(name) > Len(lit) /\ EndsWith(name, lit)

FragmentQualifies(item) ==
    item.instance.cls = "GrapheneObjectType" /\ ~FragmentExcludedName(item.name)

\* fragment <fragment_name(T)> on <T> { <T's field names, one per line> }
ExpectedFragment(item) ==
    LET names == [i \in 1..Len(item.instance.fields) |-> item.instance.fields[i].name]
    IN << <<>>,
          <<"fragment ">> \o fragment_name(fragment_name_replace, item.name)
              \o <<" on ">> \o item.name \o <<" {">>,
          <<"    ">> \o Head(names) >>
       \o Tail(names)
       \o << <<"}">>, <<>> >>

RECURSIVE ExpectedFragments(_)
ExpectedFragments(items) ==
    IF items = <<>> THEN <<>>
    ELSE (IF FragmentQualifies(Head(items)) THEN <<ExpectedFragment(Head(items))>> ELSE <<>>)
         \o ExpectedFragments(Tail(items))

\* C4: what get_fragments has emitted after any number of type-map entries is,
\* in type-map order, one fragment block per entry that is an object type of
\* the schema and whose name does not match the exclusion pattern, named
\* fragment_name(T), declared on T and listing T's field names in order; no
\* other entry has a block, under either naming transform.
C4_FragmentsPerObjectType ==
    (handler = "get_fragments" /\ pc \in {"iterate", "return"})
    => fs["fragments"] = ExpectedFragments(SubSeq(schema.type_map, 1, idx - 1))

\* A whole type map was rendered that holds an excluded object type, a
\* type that is no graphene object type, and a type that got its fragment.
C4_Witness ==
    /\ handler = "get_fragments" /\ pc = "return"
    /\ \E i \in 1..Len(schema.type_map) :
          /\ schema.type_map[i].instance.cls = "GrapheneObjectType"
          /\ FragmentExcludedName(schema.type_map[i].name)
    /\ \E i \in 1..Len(schema.type_map) :
          schema.type_map[i].instance.cls # "GrapheneObjectType"
    /\ Len(fs["fragments"]) >= 1

-----------------------------------------------------------------------------
(* Claims about get_mutations (SpecMutations).                             *)

\* The selection of a mutation block: the lines ${fields} became.
Selection(text) ==
    [j \in 1..(Len(text) - 6) |-> IF j = 1 THEN Tail(text[4]) ELSE text[j + 3]]

\* Root mutation field i was rendered.
MutationEmitted(i) ==
    /\ Processed("get_mutations", i)
    /\ BlocksFor("mutations", "mutation ", MutationItems[i].name) # {}

MutationBlock(i) ==
    fs["mutations"][CHOOSE b \in BlocksFor("mutations", "mutation ", MutationItems[i].name) : TRUE]

\* C6: the variable declaration of every argument is `$name: Type`, followed
\* by ` = <value>` exactly when the argument has a default value.
C6_DefaultSuffixIffDefault ==
    \A i \in 1..Len(MutationItems) :
        MutationEmitted(i)
        => LET f == MutationItems[i]
               decl == [n \in 1..Len(f.args) |->
                          <<"$">> \o f.args[n].name \o <<": ">>
                             \o _scalar_type_to_gql(f.args[n].type)
                             \o (IF f.args[n].default_value # "None"
                                 THEN <<" = ">> \o PyFormat(f.args[n].default_value)
                                 ELSE <<>>)]
           IN MutationBlock(i)[2]
                = <<"mutation ">> \o f.name \o <<"(">> \o JoinComma(decl) \o <<") {">>

\* C7: in every emitted mutation block a payload field is selected (as
\* `name` or as `name {`) exactly when its name does not begin with an
\* underscore.
C7_UnderscoreFieldsDropped ==
    \A i \in 1..Len(MutationItems) :
        LET f == MutationItems[i]
        IN (Processed("get_mutations", i) /\ f.type.cls = "GrapheneObjectType"
                /\ ~StartsWith(f.name, <<"_", "debug">>))
           => /\ Cardinality(BlocksFor("mutations", "mutation ", f.name)) = 1
              /\ \A n \in 1..Len(f.type.fields) :
                    LET pf == f.type.fields[n]
                        sel == Selection(MutationBlock(i))
                    IN (\E j \in 1..Len(sel) : sel[j] \in {pf.name, pf.name \o <<" {">>})
                       <=> pf.name[1] # "_"

\* A block was emitted for a payload with an underscore-prefixed field of
\* object type and a field without underscore.
C7_Witness ==
    \E i \in 1..Len(MutationItems) :
        /\ MutationEmitted(i)
        /\ \E n \in 1..Len(MutationItems[i].type.fields) :
              /\ MutationItems[i].type.fields[n].name[1] = "_"
              /\ MutationItems[i].type.fields[n].type.cls = "GrapheneObjectType"
        /\ \E n \in 1..Len(MutationItems[i].type.fields) :
              MutationItems[i].type.fields[n].name[1] # "_"

RECURSIVE StripLists(_)
\* The element type under every list wrapper.
StripLists(t) == IF t.cls = "GraphQLList" THEN StripLists(t.of_type) ELSE t

\* The fragment C8 gives a payload field type.
ClaimedFragment(t) ==
    LET element == StripLists(t)
    IN IF element.cls \in {"GrapheneObjectType", "GraphQLObjectType"}
       THEN IF element.name = <<"Error", "Type">>
            THEN Str(<<"Error", "Type", "Field">>)
            ELSE Str(fragment_name(fragment_name_replace, element.name))
       ELSE None

ClaimedStrings(pf) ==
    IF ClaimedFragment(pf.type).cls = "str"
    THEN << pf.name \o <<" {">>, <<"...">> \o ClaimedFragment(pf.type).s, <<"}">> >>
    ELSE << pf.name >>

NoUnderscoreField(t) == \A n \in 1..Len(t.fields) : t.fields[n].name[1] # "_"

\* C8: for every payload field of a processed mutation the fragment is
\* ErrorTypeField for the object type ErrorType under either naming
\* transform, fragment_name(name) for any other object type, that of the
\* element type for a list, and none for a NonNull wrapper or any other type;
\* and the emitted selection nests each fragment under its field's name
\* (read on payloads without underscore fields, whose strings are all kept).
C8_FragmentResolution ==
    \A i \in 1..Len(MutationItems) :
        LET f == MutationItems[i]
        IN (Processed("get_mutations", i) /\ f.type.cls = "GrapheneObjectType")
           => /\ \A n \in 1..Len(f.type.fields) :
                    _mutation_field_fragment(fragment_name_replace, f.type.fields[n].type)
                      = ClaimedFragment(f.type.fields[n].type)
              /\ (MutationEmitted(i) /\ NoUnderscoreField(f.type))
                 => Selection(MutationBlock(i))
                      = Flatten([n \in 1..Len(f.type.fields) |-> ClaimedStrings(f.type.fields[n])])

\* A block was emitted whose payload holds ErrorType under a list, and
\* another field that is a NonNull wrapper, with no naming transform.
C8_Witness ==
    \E i \in 1..Len(MutationItems) :
        /\ MutationEmitted(i) /\ NoUnderscoreField(MutationItems[i].type)
        /\ fragment_name_replace = None
        /\ \E n \in 1..Len(MutationItems[i].type.fields) :
              LET t == MutationItems[i].type.fields[n].type
              IN t.cls = "GraphQLList" /\ StripLists(t) = ErrorType
        /\ \E n \in 1..Len(MutationItems[i].type.fields) :
              MutationItems[i].type.fields[n].type.cls = "GraphQLNonNull"

\* C10: in every emitted mutation block each spread line stands between the
\* `name {` opener of a payload field and a `}` closer, and there are as many
\* openers as closers.
C10_SelectionWellFormed ==
    \A i \in 1..Len(MutationItems) :
        MutationEmitted(i)
        => LET sel == Selection(MutationBlock(i))
               fields == MutationItems[i].type.fields
               openers == {j \in 1..Len(sel) : sel[j] # <<>> /\ sel[j][Len(sel[j])] = " {"}
               closers == {j \in 1..Len(sel) : sel[j] = <<"}">>}
           IN /\ Cardinality(openers) = Cardinality(closers)
              /\ \A j \in 1..Len(sel) :
                    StartsWith(sel[j], <<"...">>)
                    => /\ j > 1 /\ j < Len(sel)
                       /\ \E n \in 1..Len(fields) : sel[j - 1] = fields[n].name \o <<" {">>
                       /\ sel[j + 1] = <<"}">>

-----------------------------------------------------------------------------
(* Claims about codegen (Spec).                                            *)

Names(fields) == {fields[i].name : i \in 1..Len(fields)}

MutationQualifies(f) ==
    ~StartsWith(f.name, <<"_", "debug">>) /\ f.type.cls = "GrapheneObjectType"

\* C5: the mutation blocks of a generator built with schema S are those of
\* the fields of S's root mutation type whose name is not excluded and whose
\* result type is an object type, whatever other schema exists.
C5_MutationsOfOwnSchema ==
    Closed("mutations")
    => \A name \in Names(schema.mutation) \cup Names(project_schema.mutation) :
          BlocksFor("mutations", "mutation ", name) # {}
          <=> \E i \in 1..Len(schema.mutation) :
                 schema.mutation[i].name = name /\ MutationQualifies(schema.mutation[i])

\* The names of the blocks a sink is to hold, by the rules of C1, C4 and C5.
ExpectedQueryNames ==
    {schema.query[i].name : i \in {n \in 1..Len(schema.query) :
        ~StartsWith(schema.query[n].name, <<"_", "debug">>)
        /\ schema.query[n].type.cls # "GraphQLScalarType"}}
ExpectedMutationNames ==
    {schema.mutation[i].name : i \in {n \in 1..Len(schema.mutation) :
        MutationQualifies(schema.mutation[n])}}

SinkComplete(k) ==
    CASE k = "fragments" -> fs[k] = ExpectedFragments(schema.type_map)
      [] k = "queries" ->
            /\ Len(fs[k]) = Cardinality(ExpectedQueryNames)
            /\ \A name \in ExpectedQueryNames : BlocksFor(k, "query ", name) # {}
      [] k = "mutations" ->
            /\ Len(fs[k]) = Cardinality(ExpectedMutationNames)
            /\ \A name \in ExpectedMutationNames : BlocksFor(k, "mutation ", name) # {}

\* C9: when codegen has ended, every requested sink has been written in
\* full with the blocks of its own kind, in place of what it held; every
\* omitted sink is untouched and its builder did not run; and `ok` is
\* printed only after every requested sink was written.
C9_RequestedSinksWritten ==
    pc \in {"done", "raised"}
    => /\ \A k \in Sinks :
            IF files[k] THEN Closed(k) /\ SinkComplete(k)
            ELSE fs[k] = PriorContents /\ ~Closed(k)
       /\ (\E n \in 1..Len(stdout) : stdout[n] = <<"ok">>)
          => /\ stdout[Len(stdout)] = <<"ok">>
             /\ \A k \in Sinks : files[k] => Closed(k)

====
